---- MODULE Spec2Model ----
(***************************************************************************)
(* A model of pyactiveresource/requests_connection.py: the Error taxonomy, *)
(* the Response value and the Connection object (construction, site       *)
(* parsing, basic-auth token, _open).                                      *)
(*                                                                         *)
(* Text that the code takes apart or encodes (site URLs, credentials, the  *)
(* auth token) is a sequence of one-character strings; text that the code  *)
(* only copies or formats (bodies, messages) is a TLA+ string.             *)
(***************************************************************************)
EXTENDS Integers, Sequences, FiniteSets, TLC

VARIABLES
  pc,             \* "new" before Connection.__init__, "ready" after it
  arg,            \* the arguments Connection.__init__ was called with
  conn,           \* the Connection's instance attributes (name -> value)
  server,         \* what the transport would do on the current attempt
  outcome,        \* how the last _open call ended
  calls,          \* number of _open calls made on the connection
  transportCalls, \* number of times the last _open call invoked the transport
  err,            \* the last error object constructed (Error taxonomy)
  reads,          \* read() calls made on the transport failure object
  cmp             \* the last Response.__eq__ evaluation

vars == <<pc, arg, conn, server, outcome, calls, transportCalls, err, reads, cmp>>

\* Python's None, where the value could be text (a sequence of characters): a
\* sequence that is no text, its element not being a character.
None == <<"None">>

\* Python's None, where the value could be an integer (a port, a status code, a
\* timeout): a number none of these takes.
NoneInt == 0 - 1

\* Python's None, where the value could be a string the code only copies (a
\* message, a url): a string no input uses.
NoneStr == "<None>"

\* Number of _open calls followed on one connection.
MaxCalls == 2

-----------------------------------------------------------------------------
(* Character helpers (str methods used by urllib.parse and by the code).   *)

UpperLetters ==
  <<"A","B","C","D","E","F","G","H","I","J","K","L","M",
    "N","O","P","Q","R","S","T","U","V","W","X","Y","Z">>

LowerLetters ==
  <<"a","b","c","d","e","f","g","h","i","j","k","l","m",
    "n","o","p","q","r","s","t","u","v","w","x","y","z">>

Digits == <<"0","1","2","3","4","5","6","7","8","9">>

IndexIn(table, c) ==
  IF \E i \in 1..Len(table) : table[i] = c
  THEN CHOOSE i \in 1..Len(table) : table[i] = c
  ELSE 0

\* str.lower() on one character
LowerChar(c) ==
  IF IndexIn(UpperLetters, c) # 0 THEN LowerLetters[IndexIn(UpperLetters, c)] ELSE c

\* str.lower()
Lower(s) == [i \in 1..Len(s) |-> LowerChar(s[i])]

IsAlpha(c) == IndexIn(UpperLetters, c) # 0 \/ IndexIn(LowerLetters, c) # 0

IsDigit(c) == IndexIn(Digits, c) # 0

\* urllib.parse.scheme_chars: letters, digits and "+-."
IsSchemeChar(c) == IsAlpha(c) \/ IsDigit(c) \/ c \in {"+", "-", "."}

\* str.find(c) + 1: the position of the first c in s, 0 when there is none
Find(s, c) ==
  IF \E i \in 1..Len(s) : s[i] = c
  THEN CHOOSE i \in 1..Len(s) : s[i] = c /\ \A j \in 1..(i-1) : s[j] # c
  ELSE 0

\* str.rfind(c) + 1
RFind(s, c) ==
  IF \E i \in 1..Len(s) : s[i] = c
  THEN CHOOSE i \in 1..Len(s) : s[i] = c /\ \A j \in (i+1)..Len(s) : s[j] # c
  ELSE 0

\* s[i-1:] of Python, i counted from 1
From(s, i) == SubSeq(s, i, Len(s))

\* str.partition(c): <<before, found, after>>
Partition(s, c) ==
  LET i == Find(s, c)
  IN IF i = 0 THEN <<s, FALSE, <<>>>>
              ELSE <<SubSeq(s, 1, i-1), TRUE, From(s, i+1)>>

\* str.rpartition(c): <<before, found, after>>
RPartition(s, c) ==
  LET i == RFind(s, c)
  IN IF i = 0 THEN <<(<<>>), FALSE, s>>
              ELSE <<SubSeq(s, 1, i-1), TRUE, From(s, i+1)>>

RECURSIVE IntOf(_)
\* int(s, 10) of a digit string
IntOf(s) ==
  IF Len(s) = 0 THEN 0
  ELSE 10 * IntOf(SubSeq(s, 1, Len(s)-1)) + (IndexIn(Digits, s[Len(s)]) - 1)

RECURSIVE StrOfNat(_)
\* str(n) of a non-negative integer
StrOfNat(n) ==
  IF n < 10 THEN <<Digits[n+1]>>
  ELSE StrOfNat(n \div 10) \o <<Digits[(n % 10) + 1]>>

\* Python truthiness of a value that is None or a character sequence
Truthy(v) == v # None /\ v # <<>>

\* Python's `a or b`
Or(a, b) == IF Truthy(a) THEN a ELSE b

-----------------------------------------------------------------------------
(* urllib.parse.urlparse / urlunparse, as far as _parse_site uses them.    *)

\* urlsplit: the scheme and what follows "scheme:"
SplitScheme(url) ==
  LET i == Find(url, ":")
  IN IF /\ i > 1
        /\ IsAlpha(url[1])
        /\ \A j \in 1..(i-1) : IsSchemeChar(url[j])
     THEN <<Lower(SubSeq(url, 1, i-1)), From(url, i+1)>>
     ELSE <<(<<>>), url>>

\* urlsplit / _splitnetloc: the netloc between "//" and the first of "/?#"
SplitNetloc(rest) ==
  IF Len(rest) >= 2 /\ rest[1] = "/" /\ rest[2] = "/"
  THEN LET after == From(rest, 3)
           stops == {i \in 1..Len(after) : after[i] \in {"/", "?", "#"}}
           delim == IF stops = {} THEN Len(after) + 1
                    ELSE CHOOSE i \in stops : \A j \in stops : i <= j
       IN <<SubSeq(after, 1, delim - 1), From(after, delim)>>
  ELSE <<(<<>>), rest>>

Netloc(url) == SplitNetloc(SplitScheme(url)[2])[1]

\* _NetlocResultMixinStr._userinfo: <<username, password>>
UserInfo(netloc) ==
  LET p == RPartition(netloc, "@")
  IN IF p[2]
     THEN LET q == Partition(p[1], ":")
          IN <<q[1], IF q[2] THEN q[3] ELSE None>>
     ELSE <<None, None>>

\* _NetlocResultMixinStr._hostinfo: <<hostname, port>> as text
HostInfo(netloc) ==
  LET hostinfo == RPartition(netloc, "@")[3]
      br       == Partition(hostinfo, "[")
      hp       == IF br[2]
                  THEN LET cl == Partition(br[3], "]")
                       IN <<cl[1], Partition(cl[3], ":")[3]>>
                  ELSE LET co == Partition(hostinfo, ":")
                       IN <<co[1], co[3]>>
  IN <<hp[1], IF hp[2] = <<>> THEN None ELSE hp[2]>>

\* SplitResult.hostname
Hostname(netloc) ==
  LET h == HostInfo(netloc)[1]
  IN IF h = <<>> THEN None ELSE Lower(h)

\* SplitResult.port (an integer, or None)
Port(netloc) ==
  LET p == HostInfo(netloc)[2]
  IN IF p = None THEN NoneInt ELSE IntOf(p)

\* urlunparse((scheme, netloc, '', '', '', ''))
Unparse(scheme, netloc) ==
  LET url == IF netloc # <<>> THEN <<"/", "/">> \o netloc ELSE <<>>
  IN IF scheme # <<>> THEN scheme \o <<":">> \o url ELSE url

-----------------------------------------------------------------------------
(* Connection._parse_site                                                  *)

\* `if parts.port: host += ":" + str(parts.port)`
HostWithPort(hostname, port) ==
  IF port # NoneInt /\ port # 0 THEN hostname \o <<":">> \o StrOfNat(port) ELSE hostname

\* _parse_site(site): <<new_site, username, password>>
ParseSite(site) ==
  LET netloc == Netloc(site)
      host   == HostWithPort(Hostname(netloc), Port(netloc))
  IN <<Unparse(SplitScheme(site)[1], host), UserInfo(netloc)[1], UserInfo(netloc)[2]>>

-----------------------------------------------------------------------------
(* base64.b64encode(text.encode('utf-8')).decode('utf-8') and its inverse. *)

\* ord(c) of the characters credentials are drawn from; "e'" stands for
\* U+00E9, a character outside ASCII
Ord(c) ==
  CASE c = ":"  -> 58
    [] c = "a"  -> 97
    [] c = "p"  -> 112
    [] c = "q"  -> 113
    [] c = "u"  -> 117
    [] c = "e'" -> 233

Chr(n) == CHOOSE c \in {":", "a", "p", "q", "u", "e'"} : Ord(c) = n

RECURSIVE Utf8Encode(_)
\* str.encode('utf-8'): a sequence of bytes
Utf8Encode(s) ==
  IF Len(s) = 0 THEN <<>>
  ELSE LET cp == Ord(s[1])
       IN (IF cp < 128 THEN <<cp>>
           ELSE <<192 + (cp \div 64), 128 + (cp % 64)>>) \o Utf8Encode(Tail(s))

RECURSIVE Utf8Decode(_)
\* bytes.decode('utf-8')
Utf8Decode(b) ==
  IF Len(b) = 0 THEN <<>>
  ELSE IF b[1] < 128 THEN <<Chr(b[1])>> \o Utf8Decode(Tail(b))
  ELSE <<Chr((b[1] - 192) * 64 + (b[2] - 128))>> \o Utf8Decode(Tail(Tail(b)))

\* the base64 alphabet, followed by the padding character
B64Chars ==
  UpperLetters \o LowerLetters \o Digits \o <<"+", "/", "=">>

RECURSIVE B64Sextets(_)
\* the 6-bit groups of a byte sequence; 64 marks padding
B64Sextets(b) ==
  IF Len(b) = 0 THEN <<>>
  ELSE IF Len(b) = 1
    THEN <<b[1] \div 4, (b[1] % 4) * 16, 64, 64>>
  ELSE IF Len(b) = 2
    THEN <<b[1] \div 4, (b[1] % 4) * 16 + (b[2] \div 16), (b[2] % 16) * 4, 64>>
  ELSE <<b[1] \div 4, (b[1] % 4) * 16 + (b[2] \div 16),
         (b[2] % 16) * 4 + (b[3] \div 64), b[3] % 64>>
       \o B64Sextets(SubSeq(b, 4, Len(b)))

\* base64.b64encode(b).decode('utf-8')
B64Encode(b) ==
  LET sx == B64Sextets(b) IN [i \in 1..Len(sx) |-> B64Chars[sx[i] + 1]]

RECURSIVE B64Bytes(_)
B64Bytes(sx) ==
  IF Len(sx) = 0 THEN <<>>
  ELSE IF sx[3] = 64
    THEN <<sx[1] * 4 + (sx[2] \div 16)>>
  ELSE IF sx[4] = 64
    THEN <<sx[1] * 4 + (sx[2] \div 16), (sx[2] % 16) * 16 + (sx[3] \div 4)>>
  ELSE <<sx[1] * 4 + (sx[2] \div 16), (sx[2] % 16) * 16 + (sx[3] \div 4),
         (sx[3] % 4) * 64 + sx[4]>>
       \o B64Bytes(SubSeq(sx, 5, Len(sx)))

\* base64.b64decode(text)
B64Decode(t) == B64Bytes([i \in 1..Len(t) |-> IndexIn(B64Chars, t[i]) - 1])

-----------------------------------------------------------------------------
(* Connection.__init__                                                     *)

EffectiveCredentialUrlFirst(explicit, parsed) == Or(Or(parsed, explicit), <<>>)

\* `self.user = user or self.user or ''` (and the same for password)
EffectiveCredential(explicit, parsed) == Or(Or(explicit, parsed), <<>>)

AuthTokenWhenBoth(user, password) ==
  IF Truthy(user) /\ Truthy(password)
  THEN B64Encode(Utf8Encode(user \o <<":">> \o password))
  ELSE None

\* `if self.user or self.password: self.auth = base64(...) else: self.auth = None`
AuthToken(user, password) ==
  IF Truthy(user) \/ Truthy(password)
  THEN B64Encode(Utf8Encode(user \o <<":">> \o password))
  ELSE None

\* the instance attributes __init__ leaves on the object
NewConnection(site, user, password, timeout, format) ==
  LET parsed == ParseSite(site)
      u      == EffectiveCredential(user, parsed[2])
      p      == EffectiveCredential(password, parsed[3])
  IN [site |-> parsed[1], user |-> u, password |-> p, auth |-> AuthToken(u, p)]

-----------------------------------------------------------------------------
(* The inputs.                                                             *)

Schemes == { <<"h","t","t","p">>, <<"H","T","T","P","S">> }

Hosts ==
  { <<"h",".","i","o">>, <<"[",":",":","1","]">>, <<"A","P","I",".","h",".","i","o">> }

\* the port as written in the URL, empty when the URL carries none
Ports == { <<>>, <<"8","0">>, <<"0","8","0">>, <<"0">> }

UrlUsers == { <<>>, <<"u">> }

\* the password as written in the URL, None when the user-info has no ":"
UrlPasswords == { None, <<>>, <<"p">>, <<"p",":","q">> }

\* path, query and fragment as written in the URL
Tails == { <<>>, <<"/","a","?","b","#","c">> }

\* a site URL with (hasInfo) or without embedded user-info
BuildUrl(scheme, hasInfo, user, password, host, port, tail) ==
  scheme \o <<":","/","/">>
         \o (IF hasInfo
             THEN user \o (IF password = None THEN <<>> ELSE <<":">> \o password) \o <<"@">>
             ELSE <<>>)
         \o host
         \o (IF port = <<>> THEN <<>> ELSE <<":">> \o port)
         \o tail

ArgUsers == { None, <<>>, <<"a">> }

ArgPasswords == { None, <<>>, <<"q","e'">> }

Timeouts == { NoneInt, 5 }

Formats == { "JSONFormat", "XMLFormat" }

\* what the transport does with one exchange: it completes it with a reply, or
\* fails without any response
Replies ==
  [kind : {"reply"}, code : {201, 404, 500, 503},
   body : {"", "down"}, msg : {"OK", "Service Unavailable"}]

Servers == Replies \cup {[kind |-> "fail"]}

NoOutcome == [kind |-> "none"]

-----------------------------------------------------------------------------
(* The Connection object: construction, then _open calls.                  *)

Init ==
  /\ pc = "new"
  /\ arg = <<>>
  /\ conn = <<>>
  /\ server = [kind |-> "fail"]
  /\ outcome = NoOutcome
  /\ calls = 0
  /\ transportCalls = 0
  /\ err = [kind |-> "none"]
  /\ reads = 0
  /\ cmp = [kind |-> "none"]

\* Connection(site, user, password, timeout, format)
Construct ==
  /\ pc = "new"
  /\ \E hasInfo \in BOOLEAN, host \in Hosts, scheme \in Schemes, port \in Ports,
        uu \in UrlUsers, up \in UrlPasswords, tail \in Tails,
        user \in ArgUsers, password \in ArgPasswords,
        timeout \in Timeouts, format \in Formats :
       LET site == BuildUrl(scheme, hasInfo, uu, up, host, port, tail)
       IN /\ hasInfo \/ (uu = <<>> /\ up = None)
          /\ arg' = [site |-> site, scheme |-> scheme, hasInfo |-> hasInfo,
                     urlUser |-> uu, urlPassword |-> up, host |-> host, port |-> port,
                     user |-> user, password |-> password,
                     timeout |-> timeout, format |-> format]
          /\ conn' = NewConnection(site, user, password, timeout, format)
  /\ pc' = "ready"
  /\ UNCHANGED <<server, outcome, calls, transportCalls, err, reads, cmp>>

\* _open(method, path, headers, data): `self.log.info(self.site, path)` looks up
\* an attribute __init__ never sets, and the bare name `request` that follows
\* is not defined in the module; the transport is not reached
OpenOutcome(c) ==
  IF "log" \in DOMAIN c THEN [kind |-> "NameError"] ELSE [kind |-> "AttributeError"]

\* one _open call, the service being in state s
Open ==
  /\ pc = "ready"
  /\ calls < MaxCalls
  /\ \E s \in Servers :
       /\ server' = s
       /\ outcome' = OpenOutcome(conn)
  /\ transportCalls' = 0
  /\ calls' = calls + 1
  /\ UNCHANGED <<pc, arg, conn, err, reads, cmp>>

Next == Construct \/ Open

Spec == Init /\ [][Next]_vars

-----------------------------------------------------------------------------
(* Response                                                                *)

\* `headers=None` of Response.__init__; a dict is the set of its <<key, value>> items
NoneDict == {None}

\* Response.__init__(code, body, headers=None, msg='', response=None)
Response(code, body, headers, msg, response) ==
  [type |-> "Response", code |-> code, msg |-> msg, body |-> body,
   headers |-> IF headers = NoneDict THEN {} ELSE headers, response |-> response]

EqWithMsg(self, other) ==
  IF other.type = "Response"
  THEN <<self.code, self.body, self.headers, self.msg>>
         = <<other.code, other.body, other.headers, other.msg>>
  ELSE FALSE

\* Response.__eq__(self, other)
Eq(self, other) ==
  IF other.type = "Response"
  THEN <<self.code, self.body, self.headers>> = <<other.code, other.body, other.headers>>
  ELSE FALSE

\* '%s' % code
CodeStr(code) == IF code = NoneInt THEN "None" ELSE ToString(code)

RECURSIVE ItemsRepr(_)
\* the items of a dict's repr: 'k': 'v', ...
ItemsRepr(d) ==
  IF d = {} THEN ""
  ELSE LET e == CHOOSE x \in d : TRUE
       IN "'" \o e[1] \o "': '" \o e[2] \o "'"
          \o (IF d \ {e} = {} THEN "" ELSE ", " \o ItemsRepr(d \ {e}))

\* Response.__repr__, which str(response) uses
Repr(r) ==
  "Response(code=" \o CodeStr(r.code) \o ", body=\"" \o r.body
     \o "\", headers={" \o ItemsRepr(r.headers) \o "}, msg=\"" \o r.msg \o "\")"

\* dict(response.headers): the last value of each key
DictOf(h) ==
  {h[i] : i \in {k \in 1..Len(h) : \A j \in (k+1)..Len(h) : h[j][1] # h[k][1]}}

\* response.read(): the body on the first call, nothing once it is consumed
Read(t, nreads) == IF nreads = 0 THEN t.body ELSE ""

\* Response.from_httpresponse(response), on a transport object read nreads times
FromHttpResponse(t, nreads) ==
  Response(t.code, Read(t, nreads), DictOf(t.headers), t.msg, t.id)

-----------------------------------------------------------------------------
(* Error, ServerError, ConnectionError                                     *)

\* Error.__init__(msg, url, code)
Error(kind, msg, url, code) == [kind |-> kind, msg |-> msg, url |-> url, code |-> code]

\* the transport objects an error is constructed from: an HTTPError-like
\* object (code, read(), headers, msg, url); truthy is what bool(object) gives
TransportObjects ==
  [present : {TRUE}, truthy : BOOLEAN, id : {"http1"}, code : {404, 503},
   body : {"", "down"},
   headers : { <<>>, << <<"X", "y">> >>, << <<"X", "y">>, <<"X", "z">> >> },
   msg : {"", "Service Unavailable"}, url : {"http://h.io/a"}]

\* `response=None`
NoTransportObject == [present |-> FALSE]

Messages == { NoneStr, "", "boom" }

\* `not response`
NotResponse(t) == ~t.present \/ ~t.truthy

DefaultMessageIsNone(message, response) ==
  IF message = NoneStr THEN Repr(response) ELSE message

\* `if not message: message = str(self.response)`
DefaultMessage(message, response) ==
  IF message = NoneStr \/ message = "" THEN Repr(response) ELSE message

\* ConnectionError.__init__(response, message)
ConnectionError(t, message) ==
  LET response == IF NotResponse(t) THEN Response(NoneInt, "", NoneDict, "", NoneStr)
                  ELSE FromHttpResponse(t, 0)
      url      == IF NotResponse(t) THEN NoneStr ELSE t.url
  IN [response |-> response] @@
     Error("ConnectionError", DefaultMessage(message, response), url, response.code)

\* ServerError.__init__(response)
ServerError(t) ==
  IF t.present
  THEN Error("ServerError", t.msg, t.url, t.code)
  ELSE Error("ServerError", NoneStr, NoneStr, NoneInt)

\* raise ConnectionError(t, message)
NewConnectionError ==
  /\ \E message \in Messages, t \in {NoTransportObject} \cup TransportObjects :
       /\ err' = [failure |-> t, message |-> message] @@ ConnectionError(t, message)
       /\ reads' = IF NotResponse(t) THEN 0 ELSE 1
  /\ UNCHANGED <<pc, arg, conn, server, outcome, calls, transportCalls, cmp>>

\* raise ServerError(t)
NewServerError ==
  /\ \E t \in TransportObjects \cup {NoTransportObject} :
       err' = [failure |-> t, message |-> NoneStr] @@ ServerError(t)
  /\ reads' = 0
  /\ UNCHANGED <<pc, arg, conn, server, outcome, calls, transportCalls, cmp>>

NextErr == NewConnectionError \/ NewServerError

SpecErr == Init /\ [][NextErr]_vars

-----------------------------------------------------------------------------
(* Response equality                                                       *)

\* the Response values compared
Responses ==
  { Response(code, body, headers, msg, response) :
      code \in {200, 404}, body \in {"", "x"},
      headers \in {NoneDict, {}, {<<"X", "y">>}},
      msg \in {"", "OK"}, response \in {NoneStr, "http1"} }

\* values with the same attributes that are no Response
Others == { [r EXCEPT !.type = "Other"] : r \in Responses }

\* a == b
Compare ==
  /\ \E a \in Responses, b \in Responses \cup Others :
       cmp' = [kind |-> "eq", lhs |-> a, rhs |-> b, result |-> Eq(a, b)]
  /\ UNCHANGED <<pc, arg, conn, server, outcome, calls, transportCalls, err, reads>>

NextEq == Compare

SpecEq == Init /\ [][NextEq]_vars

-----------------------------------------------------------------------------
(* The claims about _open (specification Spec).                            *)

Attempted == calls > 0

Is5xx(code) == code >= 500 /\ code <= 599

\* C1: a completed exchange whose status is in [500,599] makes _open raise
\* ServerError, with the reply's status as code and its status text as message
C1_ServerErrorOn5xx ==
  (Attempted /\ server.kind = "reply" /\ Is5xx(server.code))
    => /\ outcome.kind = "ServerError"
       /\ outcome.code = server.code
       /\ outcome.msg = server.msg

\* C2: a completed exchange whose status is outside [500,599] makes _open return
\* a Response with that status and the transport's body
C2_ResponseOnNon5xx ==
  (Attempted /\ server.kind = "reply" /\ ~Is5xx(server.code))
    => /\ outcome.kind = "Response"
       /\ outcome.code = server.code
       /\ outcome.body = server.body

\* C3: a transport failure without a response makes _open raise ConnectionError
\* with no code, no url and the string form of an empty Response as message
C3_ConnectionErrorOnFailure ==
  (Attempted /\ server.kind = "fail")
    => /\ outcome.kind = "ConnectionError"
       /\ outcome.code = NoneInt
       /\ outcome.url = NoneStr
       /\ outcome.msg = Repr(Response(NoneInt, "", NoneDict, "", NoneStr))

\* C4: an attempt is pending until made, ends as exactly one of Response,
\* ServerError and ConnectionError, and invokes the transport at most once
C4_OneTerminalOutcome ==
  /\ ~Attempted => outcome = NoOutcome
  /\ Attempted => outcome.kind \in {"Response", "ServerError", "ConnectionError"}
  /\ transportCalls <= 1

-----------------------------------------------------------------------------
(* The claims about Connection.__init__ (specification Spec).              *)

Constructed == pc = "ready"

\* the user and password of the URL's user-info, None where it has none
UrlUser == IF arg.hasInfo THEN arg.urlUser ELSE None

UrlPassword == IF arg.hasInfo THEN arg.urlPassword ELSE None

\* C5, as stated: a supplied argument, the empty string included, is the
\* effective credential; the URL's value is used only when none is supplied
C5_ExplicitAlwaysWins ==
  Constructed =>
    /\ conn.user = IF arg.user # None THEN arg.user
                   ELSE IF UrlUser # None THEN UrlUser ELSE <<>>
    /\ conn.password = IF arg.password # None THEN arg.password
                       ELSE IF UrlPassword # None THEN UrlPassword ELSE <<>>

\* C5, amended: a supplied non-empty argument is the effective credential;
\* otherwise the URL's value is, when it has a non-empty one; otherwise it is ''
C5_NonEmptyExplicitWins ==
  Constructed =>
    /\ conn.user = IF arg.user # None /\ arg.user # <<>> THEN arg.user
                   ELSE IF UrlUser # None /\ UrlUser # <<>> THEN UrlUser ELSE <<>>
    /\ conn.password = IF arg.password # None /\ arg.password # <<>> THEN arg.password
                       ELSE IF UrlPassword # None /\ UrlPassword # <<>> THEN UrlPassword
                       ELSE <<>>

C5_Witness ==
  /\ Constructed
  /\ arg.user = <<"a">> /\ UrlUser = <<"u">> /\ conn.user = <<"a">>
  /\ arg.password = None /\ UrlPassword = <<"p">> /\ conn.password = <<"p">>

\* C6: the auth token is present iff the effective user or password is
\* non-empty, and base64-decoding it gives user + ':' + password
C6_AuthToken ==
  Constructed =>
    /\ (conn.auth # None) <=> (conn.user # <<>> \/ conn.password # <<>>)
    /\ conn.auth # None
         => Utf8Decode(B64Decode(conn.auth)) = conn.user \o <<":">> \o conn.password

C6_Witness ==
  /\ Constructed
  /\ conn.user = <<"u">>
  /\ conn.password = <<"q", "e'">>
  /\ conn.auth = <<"d", "T", "p", "x", "w", "6", "k", "=">>

\* the site URL's port as text: ':' and the port where the URL carries one
UrlPortText == IF arg.port = <<>> THEN <<>> ELSE <<":">> \o arg.port

\* C7: for a site URL with user-info, the stored site is scheme + '://' + host,
\* then ':' + port where the URL carries a port, and the extracted username and
\* password are those of the URL's user-info
C7_SiteIsSchemeHostPort ==
  (Constructed /\ arg.hasInfo) =>
    /\ conn.site = arg.scheme \o <<":", "/", "/">> \o arg.host \o UrlPortText
    /\ ParseSite(arg.site)[2] = arg.urlUser
    /\ ParseSite(arg.site)[3] = arg.urlPassword

\* C9: the connection holds site, auth token, timeout and format as given at
\* construction, and no _open call changes them, nor user and password
C9_ConfigurationStored ==
  Constructed =>
    /\ {"site", "user", "password", "auth", "timeout", "format"} \subseteq DOMAIN conn
    /\ conn.timeout = arg.timeout
    /\ conn.format = arg.format
    /\ conn.site = ParseSite(arg.site)[1]
    /\ conn.user = EffectiveCredential(arg.user, ParseSite(arg.site)[2])
    /\ conn.password = EffectiveCredential(arg.password, ParseSite(arg.site)[3])
    /\ conn.auth = AuthToken(conn.user, conn.password)

-----------------------------------------------------------------------------
(* The claim about Response.__eq__ (specification SpecEq).                 *)

Compared == cmp.kind = "eq"

\* C8: two Responses are equal iff their code, body and headers are equal,
\* whatever their msg and original response; no Response equals a value that
\* is not a Response
C8_StructuralEquality ==
  Compared =>
    cmp.result <=> /\ cmp.rhs.type = "Response"
                   /\ cmp.lhs.code = cmp.rhs.code
                   /\ cmp.lhs.body = cmp.rhs.body
                   /\ cmp.lhs.headers = cmp.rhs.headers

C8_Witness ==
  /\ Compared
  /\ cmp.result
  /\ cmp.lhs.msg # cmp.rhs.msg
  /\ cmp.lhs.response # cmp.rhs.response

-----------------------------------------------------------------------------
(* The claim about ConnectionError.__init__ (specification SpecErr).       *)

IsConnectionError == err.kind = "ConnectionError"

\* the Response of a ConnectionError constructed without a transport object
EmptyResponse ==
  [type |-> "Response", code |-> NoneInt, msg |-> "", body |-> "",
   headers |-> {}, response |-> NoneStr]

\* the Response of a ConnectionError constructed from transport object t
ResponseOf(t) ==
  [type |-> "Response", code |-> t.code, msg |-> t.msg, body |-> t.body,
   headers |-> DictOf(t.headers), response |-> t.id]

\* C10, as stated: the response and url follow from whether a transport
\* failure is given, the message is the given one whenever one is supplied
C10_MessageWheneverSupplied ==
  IsConnectionError =>
    /\ ~err.failure.present
         => err.response = EmptyResponse /\ err.url = NoneStr /\ reads = 0
    /\ err.failure.present
         => err.response = ResponseOf(err.failure) /\ err.url = err.failure.url
            /\ reads = 1
    /\ err.msg = IF err.message # NoneStr THEN err.message ELSE Repr(err.response)
    /\ err.code = err.response.code

\* C10, amended: a transport failure that is absent or false in a boolean
\* context gives the empty Response and no url; the message is the given one
\* when it is supplied and non-empty, the string form of the response otherwise
C10_ConnectionErrorFields ==
  IsConnectionError =>
    /\ (~err.failure.present \/ ~err.failure.truthy)
         => /\ err.response = EmptyResponse /\ err.url = NoneStr /\ reads = 0
            /\ Repr(err.response) = "Response(code=None, body=\"\", headers={}, msg=\"\")"
    /\ (err.failure.present /\ err.failure.truthy)
         => err.response = ResponseOf(err.failure) /\ err.url = err.failure.url
            /\ reads = 1
    /\ err.msg = IF err.message # NoneStr /\ err.message # ""
                 THEN err.message ELSE Repr(err.response)
    /\ err.code = err.response.code

C10_Witness ==
  /\ IsConnectionError
  /\ err.failure.present /\ err.failure.truthy
  /\ err.message = NoneStr
  /\ err.code = 503
  /\ err.msg = "Response(code=503, body=\"down\", headers={'X': 'z'}, msg=\"Service Unavailable\")"

====
